---- MODULE Spec2Model ----
(***************************************************************************)
(* A model of porygion, the region map generator: the elevation field, the *)
(* landmark tile filter, the spatial partitioner, the settlement placer,   *)
(* the cluster assigner and the route builder, with the four generation    *)
(* entry points that chain them.                                           *)
(***************************************************************************)
EXTENDS Integers, Sequences, FiniteSets, TLC

VARIABLES
    pc,               \* the position of the running call ("idle" between calls)
    call,             \* the running entry point and its arguments
    regionMap,        \* the RegionMap the caller holds (input of the re-entry calls)
    ret,              \* what the last call returned
    golden,           \* the result of an earlier run with the same arguments
    calls,            \* the number of entry-point calls made
    rng,              \* the process-wide math/rand source
    elevations,       \* local: the elevation field of the running call
    validTiles,       \* local: getValidLandmarkTiles' result
    partitions,       \* local: partitionTilesByLocation's result
    partitionKeys,    \* generateCities: the shuffled partition keys
    cities,           \* generateCities: the map[Tile]bool of chosen cities
    c,                \* generateCities: the city slot
    i,                \* generateCities: the attempt of the slot
    j,                \* tryPickCityTile: the draw of the attempt
    cityList,         \* generateCities' result slice
    cityClusters,     \* clusterCities' result
    k,                \* generateRoutes: the cluster being connected (from 1)
    connectedCities,  \* generateRoutes: the map[Tile]bool of connected cities
    city,             \* generateRoutes: *Tile, <<>> for nil
    firstCity,        \* generateRoutes: *Tile, <<>> for nil
    lastCity,         \* generateRoutes: Tile
    routeTiles,       \* generateRoutes: the map[Tile]bool of route tiles
    conns,            \* history: the connections laid so far, in order
    noCandidate       \* history: the nearest-city search found no candidate

vars == <<pc, call, regionMap, ret, golden, calls, rng, elevations, validTiles,
          partitions, partitionKeys, cities, c, i, j, cityList, cityClusters,
          k, connectedCities, city, firstCity, lastCity, routeTiles, conns,
          noCandidate>>

callVars   == <<call, regionMap, ret, golden, calls>>
fieldVars  == <<elevations, validTiles, partitions>>
placerVars == <<partitionKeys, cities, c, i, j, cityList>>
routeVars  == <<cityClusters, k, connectedCities, city, firstCity, lastCity,
                routeTiles, conns, noCandidate>>

----------------------------------------------------------------------------
(* Tiles                                                                   *)

Tile(x, y) == [X |-> x, Y |-> y]

\* Tile.Distance: the manhattan distance between two tiles.
Distance(t, other) ==
    LET xDiff == t.X - other.X
        yDiff == t.Y - other.Y
    IN  (IF xDiff < 0 THEN -xDiff ELSE xDiff) + (IF yDiff < 0 THEN -yDiff ELSE yDiff)

\* The elements of a slice, and whether it holds no tile twice.
Elems(s) == {s[n] : n \in 1..Len(s)}
NoDuplicates(s) == \A m, n \in 1..Len(s) : s[m] = s[n] => m = n

\* Every order in which a set can be enumerated (Go leaves a map's iteration
\* order unspecified: each run may see any of them).
Enumerations(S) ==
    {s \in [1..Cardinality(S) -> S] : \A m, n \in 1..Cardinality(S) : s[m] = s[n] => m = n}

\* The tiles of S in the filter's scan order (by X, then by Y).
ScanOrder(S) ==
    [n \in 1..Cardinality(S) |->
        CHOOSE t \in S :
            Cardinality({u \in S : u.X < t.X \/ (u.X = t.X /\ u.Y < t.Y)}) = n - 1]

----------------------------------------------------------------------------
(* Elevation fields.  A field is w pixels wide and h pixels high.  The     *)
(* fields of the model are given tile by tile: cnt[t] of tile t's 64       *)
(* pixels are land, the first cnt[t] in scan order or (back) the last; a   *)
(* whole tile cnt does not list is all water, and the pixels right of and  *)
(* below the last whole tile are all land.  Land pixels have elevation 0   *)
(* or 1, water pixels -1.                                                  *)

TileSize == 8
LandThreshold == 20

TileGrid(w, h) == {Tile(x, y) : x \in 0..((w \div TileSize) - 1), y \in 0..((h \div TileSize) - 1)}

InField(f, px, py) == px >= 0 /\ px < f.w /\ py >= 0 /\ py < f.h

ElevAt(f, px, py) ==
    LET t   == Tile(px \div TileSize, py \div TileSize)
        idx == (px % TileSize) * TileSize + (py % TileSize)
        n   == IF t \in DOMAIN f.cnt THEN f.cnt[t] ELSE 0
    IN  IF t.X >= f.w \div TileSize \/ t.Y >= f.h \div TileSize THEN 1
        ELSE IF (IF f.back THEN idx >= TileSize * TileSize - n ELSE idx < n)
             THEN idx % 2
             ELSE -1

\* The field whose land tiles (all 64 pixels land) are exactly `land`.
LandField(w, h, land) ==
    [w |-> w, h |-> h, back |-> FALSE,
     cnt |-> [t \in land \cap TileGrid(w, h) |-> TileSize * TileSize]]

----------------------------------------------------------------------------
(* getValidLandmarkTiles                                                   *)

\* porygion.go:137, a pixel counts as land
IsLand(e) == e >= 0

\* porygion.go:139, the tile has enough land pixels
OverThreshold(n) == n > LandThreshold

\* porygion.go:134-145, the inner loop over y in column x of tile (ti, tj)
\* from y on, numLandPixels land pixels counted so far: it breaks with the
\* tile "found", ends with "none" and the new count, or reads outside the
\* field ("panic").
RECURSIVE ScanColumn(_, _, _, _, _, _)
ScanColumn(f, ti, tj, x, y, numLandPixels) ==
    IF y = TileSize THEN [status |-> "none", n |-> numLandPixels]
    ELSE LET px == ti * TileSize + x
             py == tj * TileSize + y
         IN  IF ~InField(f, px, py) THEN [status |-> "panic", n |-> numLandPixels]
             ELSE IF IsLand(ElevAt(f, px, py))
                  THEN IF OverThreshold(numLandPixels + 1)
                       THEN [status |-> "found", n |-> numLandPixels + 1]
                       ELSE ScanColumn(f, ti, tj, x, y + 1, numLandPixels + 1)
                  ELSE ScanColumn(f, ti, tj, x, y + 1, numLandPixels)

\* porygion.go:133-149, the outer loop over x from x on.
RECURSIVE ScanTile(_, _, _, _, _)
ScanTile(f, ti, tj, x, numLandPixels) ==
    IF x = TileSize THEN "none"
    ELSE LET r == ScanColumn(f, ti, tj, x, 0, numLandPixels)
         IN  IF r.status /= "none" THEN r.status
             ELSE ScanTile(f, ti, tj, x + 1, r.n)

\* porygion.go:125-126, the whole tiles in n pixels
TilesAcross(n) == n \div TileSize

\* porygion.go:123-153.  elevations[0] of a field with no column is an index
\* out of range; the tiles found are appended in the order of the loops, by
\* i and then by j.
getValidLandmarkTiles(f) ==
    IF f.w = 0 THEN [panic |-> TRUE, tiles |-> <<>>]
    ELSE LET grid  == {Tile(ti, tj) : ti \in 0..(TilesAcross(f.w) - 1),
                                      tj \in 0..(TilesAcross(f.h) - 1)}
             scans == {<<t, ScanTile(f, t.X, t.Y, 0, 0)>> : t \in grid}
         IN  IF \E s \in scans : s[2] = "panic"
             THEN [panic |-> TRUE, tiles |-> <<>>]
             ELSE [panic |-> FALSE,
                   tiles |-> ScanOrder({s[1] : s \in {u \in scans : u[2] = "found"}})]

----------------------------------------------------------------------------
(* math/rand.  The source is either free (every draw may return any value: *)
(* all draw sequences are covered) or seeded, and then a draw is a         *)
(* function of the generator's state, which rand.Seed sets from the seed.  *)

FreeRng == [seeded |-> FALSE, s |-> 0]
SeededRng == [seeded |-> TRUE, s |-> 0]

Lcg(s) == (13 * s + 7) % 64

\* rand.Seed(seed)
Seed(r, seed) == IF r.seeded THEN [r EXCEPT !.s = seed % 64] ELSE r

\* rand.Intn(n): the possible outcomes, each a value and the source after it.
Intn(r, n) ==
    IF r.seeded
    THEN {[v |-> (Lcg(r.s) \div 4) % n, rng |-> [r EXCEPT !.s = Lcg(r.s)]]}
    ELSE {[v |-> d, rng |-> r] : d \in 0..(n - 1)}

Swap(s, m, n) == [s EXCEPT ![m] = s[n], ![n] = s[m]]

\* rand.Shuffle(len(s), swap) on the slice s (indices from 1): for every
\* position from the last down to the second, swap it with a drawn position
\* not after it.  The outcomes, each the shuffled slice and the source after.
RECURSIVE Shuffle(_, _, _)
Shuffle(s, pos, r) ==
    IF pos <= 1 THEN {[keys |-> s, rng |-> r]}
    ELSE UNION {Shuffle(Swap(s, pos, d.v + 1), pos - 1, d.rng) : d \in Intn(r, pos)}

----------------------------------------------------------------------------
(* partitionTilesByLocation.  A key "%d:%d" is modelled by the pair it     *)
(* prints, which it determines.                                            *)

PartitionSize == 100

partitionTilesByLocation(partitionWidth, partitionHeight, tiles) ==
    LET keyOf(t) == <<t.X \div partitionWidth, t.Y \div partitionHeight>>
    IN  [key \in {keyOf(tiles[n]) : n \in 1..Len(tiles)} |->
            SelectSeq(tiles, LAMBDA t : keyOf(t) = key)]

----------------------------------------------------------------------------
(* generateCities and tryPickCityTile                                      *)

MaxAttempts == 50
MaxPicks == 50
MinCityX == 1
MinCityY == 2
MaxCityX == 28
MaxCityY == 16
BottomRightX == 14
BottomRightY == 14
TopRightX == 19
TopRightY == 5

CanPlaceCityNoTopRight(candidate) ==
    /\ ~(candidate.X % 2 /= 1 \/ candidate.Y % 2 /= 1)
    /\ ~(candidate.X < MinCityX \/ candidate.Y < MinCityY
            \/ candidate.X > MaxCityX \/ candidate.Y > MaxCityY)
    /\ ~(candidate.X > BottomRightX /\ candidate.Y > BottomRightY)
\* porygion.go:211-224, the candidate passes every check of tryPickCityTile
CanPlaceCity(candidate) ==
    /\ ~(candidate.X % 2 /= 1 \/ candidate.Y % 2 /= 1)
    /\ ~(candidate.X < MinCityX \/ candidate.Y < MinCityY
            \/ candidate.X > MaxCityX \/ candidate.Y > MaxCityY)
    /\ ~(candidate.X > BottomRightX /\ candidate.Y > BottomRightY)
    /\ ~(candidate.X > TopRightX /\ candidate.Y < TopRightY)

\* The stage that follows the settlement placer in the running call.
AfterCities == IF call.op = "full" THEN "cluster" ELSE "return"

\* porygion.go:27/60: the landmark tile filter runs on the call's field.
FilterTilesStep ==
    /\ pc = "filter"
    /\ LET r == getValidLandmarkTiles(elevations)
       IN  /\ validTiles' = r.tiles
           /\ pc' = IF r.panic THEN "panic" ELSE "partition"
    /\ UNCHANGED <<callVars, rng, elevations, partitions, placerVars, routeVars>>

\* porygion.go:28/61
PartitionTiles ==
    /\ pc = "partition"
    /\ partitions' = partitionTilesByLocation(PartitionSize, PartitionSize, validTiles)
    /\ pc' = "shuffle"
    /\ UNCHANGED <<callVars, rng, elevations, validTiles, placerVars, routeVars>>

\* porygion.go:172-181: the keys in the map's iteration order, shuffled.
ShuffleKeys ==
    /\ pc = "shuffle"
    /\ \E order \in Enumerations(DOMAIN partitions) :
         \E out \in Shuffle(order, Len(order), rng) :
            /\ partitionKeys' = out.keys
            /\ rng' = out.rng
    /\ cities' = {}
    /\ c' = 0
    /\ i' = 0
    /\ j' = 0
    /\ pc' = "place"
    /\ UNCHANGED <<callVars, fieldVars, cityList, routeVars>>

\* porygion.go:183: c % len(partitionKeys) with no partition divides by zero.
PlaceNoPartition ==
    /\ pc = "place"
    /\ c < call.numCities
    /\ Len(partitionKeys) = 0
    /\ pc' = "panic"
    /\ UNCHANGED <<callVars, rng, fieldVars, placerVars, routeVars>>

\* The loop counters after attempt i of slot c has failed.
AttemptFailed ==
    IF i + 1 < MaxAttempts
    THEN /\ i' = i + 1 /\ j' = 0 /\ c' = c
    ELSE /\ i' = 0 /\ j' = 0 /\ c' = c + 1

\* One draw of tryPickCityTile (porygion.go:207-225) within attempt i of
\* slot c (porygion.go:182-194), and what the loops do with its outcome.
PickCityTile ==
    /\ pc = "place"
    /\ c < call.numCities
    /\ Len(partitionKeys) > 0
    /\ LET partition == partitions[partitionKeys[(c % Len(partitionKeys)) + 1]]
       IN  \E d \in Intn(rng, Len(partition)) :
             LET candidate == partition[d.v + 1]
             IN  /\ rng' = d.rng
                 /\ IF CanPlaceCity(candidate)
                    THEN IF candidate \notin cities
                         THEN /\ cities' = cities \cup {candidate}
                              /\ c' = c + 1 /\ i' = 0 /\ j' = 0
                         ELSE /\ cities' = cities
                              /\ AttemptFailed
                    ELSE /\ cities' = cities
                         /\ IF j + 1 < MaxPicks
                            THEN /\ j' = j + 1 /\ i' = i /\ c' = c
                            ELSE AttemptFailed
    /\ pc' = pc
    /\ UNCHANGED <<callVars, fieldVars, partitionKeys, cityList, routeVars>>

\* porygion.go:195-201: the chosen cities, in the map's iteration order.
CitiesDone ==
    /\ pc = "place"
    /\ c >= call.numCities
    /\ cityList' \in Enumerations(cities)
    /\ pc' = AfterCities
    /\ UNCHANGED <<callVars, rng, fieldVars, partitionKeys, cities, c, i, j, routeVars>>

----------------------------------------------------------------------------
(* connectCities and its two legs                                          *)

RECURSIVE HorizontalLeg(_, _, _, _)
HorizontalLeg(x, endX, inc, y) ==
    IF x = endX THEN {} ELSE {Tile(x, y)} \cup HorizontalLeg(x + inc, endX, inc, y)

RECURSIVE VerticalLeg(_, _, _, _)
VerticalLeg(y, endY, inc, x) ==
    IF y = endY THEN {} ELSE {Tile(x, y)} \cup VerticalLeg(y + inc, endY, inc, x)

connectHorizontalRouteSwapped(start, end) ==
    [tiles |-> HorizontalLeg(start.X, end.X, IF start.X > end.X THEN -1 ELSE 1, start.X),
     elbow |-> Tile(end.X, start.Y)]
\* porygion.go:337-347: the tiles laid and the tile returned
connectHorizontalRoute(start, end) ==
    [tiles |-> HorizontalLeg(start.X, end.X, IF start.X > end.X THEN -1 ELSE 1, start.Y),
     elbow |-> Tile(end.X, start.Y)]

connectVerticalRouteAfterStart(start, end) ==
    [tiles |-> VerticalLeg(start.Y, end.Y, IF start.Y > end.Y THEN -1 ELSE 1, start.X)
                  \ {start},
     elbow |-> Tile(start.X, end.Y)]
\* porygion.go:349-359
connectVerticalRoute(start, end) ==
    [tiles |-> VerticalLeg(start.Y, end.Y, IF start.Y > end.Y THEN -1 ELSE 1, start.X),
     elbow |-> Tile(start.X, end.Y)]

\* porygion.go:327-335: the tiles a connection lays, coin being rand.Intn(2).
connectCities(cityA, cityB, coin) ==
    IF coin = 0
    THEN LET h == connectHorizontalRoute(cityA, cityB)
         IN  h.tiles \cup connectVerticalRoute(h.elbow, cityB).tiles
    ELSE LET v == connectVerticalRoute(cityA, cityB)
         IN  v.tiles \cup connectHorizontalRoute(v.elbow, cityB).tiles

----------------------------------------------------------------------------
(* clusterCities.  kmeans.Partition is an outside library: it fails on     *)
(* fewer points than clusters and otherwise returns two non-empty groups   *)
(* that partition the points.  Under a free source any such grouping, in   *)
(* any order, may come back; under a seeded one the grouping is a function *)
(* of the set of points.                                                   *)

NumClusters == 2

\* The points at the positions `idx` of `points`, in the order `order` of idx.
PointsAt(points, order) == [n \in 1..Len(order) |-> points[order[n]]]

Groupings(points) ==
    {<<PointsAt(points, o1), PointsAt(points, o2)>> :
        <<o1, o2>> \in UNION {Enumerations(G) \X Enumerations((1..Len(points)) \ G) :
                                G \in (SUBSET (1..Len(points))) \ {{}, 1..Len(points)}}}

kmeansPartition(points, seeded) ==
    IF NumClusters > Len(points) THEN [err |-> TRUE, clusters |-> {}]
    ELSE [err |-> FALSE,
          clusters |-> IF seeded
                       THEN LET s == ScanOrder(Elems(points))
                            IN  {<<SubSeq(s, 1, 1), SubSeq(s, 2, Len(s))>>}
                       ELSE Groupings(points)]

clusterCitiesOneCluster(points, seeded) ==
    LET r == kmeansPartition(points, seeded)
    IN  IF r.err THEN [err |-> FALSE, clusters |-> {<<points, <<>>>>}] ELSE r
\* porygion.go:229-248: the error, or the clusters as lists of tiles
clusterCities(points, seeded) ==
    LET r == kmeansPartition(points, seeded)
    IN  IF r.err THEN [err |-> TRUE, clusters |-> {}] ELSE r

----------------------------------------------------------------------------
(* generateRoutes                                                          *)

NoDistance == 99999

\* porygion.go:264-269: the first city of the cluster not yet connected.
RECURSIVE FirstUnconnected(_, _, _)
FirstUnconnected(cs, n, connected) ==
    IF n > Len(cs) THEN <<>>
    ELSE IF cs[n] \notin connected THEN <<cs[n]>>
    ELSE FirstUnconnected(cs, n + 1, connected)

IsCandidateConnected(other, cur, connected) == other /= cur
\* porygion.go:277-282: other is neither the current city nor connected
IsCandidate(other, cur, connected) == other /= cur /\ other \notin connected

\* porygion.go:274-288: the nearest candidate, the first found among equals;
\* <<>> when there is none.
RECURSIVE NearestScan(_, _, _, _, _, _)
NearestScan(cs, n, cur, connected, minDistance, nearestCity) ==
    IF n > Len(cs) THEN nearestCity
    ELSE LET other == cs[n]
         IN  IF ~IsCandidate(other, cur, connected)
             THEN NearestScan(cs, n + 1, cur, connected, minDistance, nearestCity)
             ELSE IF Distance(cur, other) < minDistance
                  THEN NearestScan(cs, n + 1, cur, connected, Distance(cur, other), <<other>>)
                  ELSE NearestScan(cs, n + 1, cur, connected, minDistance, nearestCity)

\* porygion.go:302-314: the nearest pair across the two clusters, the first
\* found among equals; (0,0) and (0,0) when a cluster is empty.
RECURSIVE NearestPair(_, _, _, _, _, _)
NearestPair(as, bs, m, n, minDistance, pair) ==
    IF m > Len(as) THEN pair
    ELSE IF n > Len(bs) THEN NearestPair(as, bs, m + 1, 1, minDistance, pair)
    ELSE IF Distance(as[m], bs[n]) < minDistance
         THEN NearestPair(as, bs, m, n + 1, Distance(as[m], bs[n]), <<as[m], bs[n]>>)
         ELSE NearestPair(as, bs, m, n + 1, minDistance, pair)

\* The cluster generateRoutes is at.
Cluster == cityClusters[k]

InChain ==
    /\ pc = "routes"
    /\ k <= Len(cityClusters)
    /\ Len(Cluster) >= 2
    /\ Cardinality(connectedCities) < Len(Cluster)

\* porygion.go:262-272: the city the iteration works from.  A nil city is
\* only met with nothing connected yet, when the cluster's first city serves.
ChainCity == IF city = <<>> THEN FirstUnconnected(Cluster, 1, connectedCities)[1] ELSE city[1]
ChainFirst == IF city = <<>> THEN <<ChainCity>> ELSE firstCity
ChainNearest == NearestScan(Cluster, 1, ChainCity, connectedCities, NoDistance, <<>>)

Connection(a, b, kind, tiles) ==
    [a |-> a, b |-> b, kind |-> kind, cluster |-> k, tiles |-> tiles]

\* porygion.go:253-256
SkipCluster ==
    /\ pc = "routes"
    /\ k <= Len(cityClusters)
    /\ Len(Cluster) < 2
    /\ k' = k + 1
    /\ UNCHANGED <<pc, callVars, rng, fieldVars, placerVars, cityClusters,
                   connectedCities, city, firstCity, lastCity, routeTiles, conns,
                   noCandidate>>

\* porygion.go:261-296, an iteration that finds a nearest city
ChainConnect ==
    /\ InChain
    /\ ChainNearest /= <<>>
    /\ \E d \in Intn(rng, 2) :
         LET laid == connectCities(ChainCity, ChainNearest[1], d.v)
         IN  /\ rng' = d.rng
             /\ routeTiles' = routeTiles \cup laid
             /\ conns' = Append(conns, Connection(ChainCity, ChainNearest[1], "chain", laid))
    /\ connectedCities' = connectedCities \cup {ChainCity, ChainNearest[1]}
    /\ firstCity' = ChainFirst
    /\ lastCity' = ChainCity
    /\ city' = ChainNearest
    /\ UNCHANGED <<pc, callVars, fieldVars, placerVars, cityClusters, k, noCandidate>>

\* porygion.go:289-291, an iteration that finds none: the loop goes round
\* again with nothing connected.
ChainNoCandidate ==
    /\ InChain
    /\ ChainNearest = <<>>
    /\ firstCity' = ChainFirst
    /\ lastCity' = ChainCity
    /\ city' = <<ChainCity>>
    /\ noCandidate' = TRUE
    /\ UNCHANGED <<pc, callVars, rng, fieldVars, placerVars, cityClusters, k,
                   connectedCities, routeTiles, conns>>

\* porygion.go:297, after the loop; the next cluster starts with fresh locals
CloseLoop ==
    /\ pc = "routes"
    /\ k <= Len(cityClusters)
    /\ Len(Cluster) >= 2
    /\ Cardinality(connectedCities) >= Len(Cluster)
    /\ \E d \in Intn(rng, 2) :
         LET laid == connectCities(firstCity[1], lastCity, d.v)
         IN  /\ rng' = d.rng
             /\ routeTiles' = routeTiles \cup laid
             /\ conns' = Append(conns, Connection(firstCity[1], lastCity, "close", laid))
    /\ k' = k + 1
    /\ connectedCities' = {}
    /\ city' = <<>>
    /\ firstCity' = <<>>
    /\ lastCity' = Tile(0, 0)
    /\ UNCHANGED <<pc, callVars, fieldVars, placerVars, cityClusters, noCandidate>>

\* porygion.go:300-324: cityClusters[0] and cityClusters[1] are joined.
JoinClusters ==
    /\ pc = "routes"
    /\ k > Len(cityClusters)
    /\ IF Len(cityClusters) < NumClusters
       THEN /\ pc' = "panic"
            /\ UNCHANGED <<rng, routeTiles, conns>>
       ELSE LET pair == NearestPair(cityClusters[1], cityClusters[2], 1, 1, NoDistance,
                                    <<Tile(0, 0), Tile(0, 0)>>)
            IN  \E d \in Intn(rng, 2) :
                  LET laid == connectCities(pair[1], pair[2], d.v)
                  IN  /\ rng' = d.rng
                      /\ routeTiles' = routeTiles \cup laid
                      /\ conns' = Append(conns, Connection(pair[1], pair[2], "join", laid))
                      /\ pc' = "return"
    /\ UNCHANGED <<callVars, fieldVars, placerVars, cityClusters, k, connectedCities,
                   city, firstCity, lastCity, noCandidate>>

----------------------------------------------------------------------------
(* RegionMap, calls and results                                            *)

NoField == LandField(0, 0, {})

\* RegionMap{}
ZeroMap == [PixelWidth |-> 0, PixelHeight |-> 0, Elevations |-> NoField,
            Cities |-> <<>>, Routes |-> {}]

NoCall == [op |-> "none", seed |-> 0, numCities |-> 0, pixelWidth |-> 0,
           pixelHeight |-> 0, regionMap |-> ZeroMap]

NoResult == [kind |-> "none", map |-> ZeroMap]

\* The locals of a call that has not reached them yet.
FieldIdle ==
    /\ elevations = NoField
    /\ validTiles = <<>>
    /\ partitions = <<>>

PlacerIdle ==
    /\ partitionKeys = <<>>
    /\ cities = {}
    /\ c = 0
    /\ i = 0
    /\ j = 0
    /\ cityList = <<>>

RoutesIdle ==
    /\ cityClusters = <<>>
    /\ k = 1
    /\ connectedCities = {}
    /\ city = <<>>
    /\ firstCity = <<>>
    /\ lastCity = Tile(0, 0)
    /\ routeTiles = {}
    /\ conns = <<>>
    /\ noCandidate = FALSE

----------------------------------------------------------------------------
(* The entry points.  A call runs its stages one after the other and       *)
(* returns to "idle"; the caller keeps the map a call returns.             *)

\* The land tiles of the fields generateElevations may produce (those of
\* them inside the field): the noise is an outside library, a function of
\* the four values drawn for it.
LandPatterns ==
    << {},
       {Tile(1, 3), Tile(3, 3), Tile(1, 5)},
       {Tile(1, 3), Tile(3, 3), Tile(5, 3), Tile(100, 3)},
       {Tile(1, 3), Tile(3, 3), Tile(5, 3)} >>

\* Every local of a call at its first value.
FreshLocals ==
    /\ elevations' = NoField
    /\ validTiles' = <<>>
    /\ partitions' = <<>>
    /\ partitionKeys' = <<>>
    /\ cities' = {}
    /\ c' = 0
    /\ i' = 0
    /\ j' = 0
    /\ cityList' = <<>>
    /\ cityClusters' = <<>>
    /\ k' = 1
    /\ connectedCities' = {}
    /\ city' = <<>>
    /\ firstCity' = <<>>
    /\ lastCity' = Tile(0, 0)
    /\ routeTiles' = {}
    /\ conns' = <<>>
    /\ noCandidate' = FALSE

\* porygion.go:23-24, GenerateRegionMap is called
CallFull(seeds, dims, counts) ==
    /\ pc = "idle"
    /\ \E seed \in seeds :
         \E dim \in dims :
            \E n \in counts :
               /\ call' = [op |-> "full", seed |-> seed, numCities |-> n,
                           pixelWidth |-> dim[1], pixelHeight |-> dim[2],
                           regionMap |-> ZeroMap]
               /\ rng' = Seed(rng, seed)
    /\ calls' = calls + 1
    /\ pc' = "elevations"
    /\ FreshLocals
    /\ ret' = NoResult
    /\ UNCHANGED <<regionMap, golden>>

\* porygion.go:45-46, GenerateBaseRegionMap is called
CallBase(seeds, dims) ==
    /\ pc = "idle"
    /\ \E seed \in seeds :
         \E dim \in dims :
            /\ call' = [op |-> "base", seed |-> seed, numCities |-> 0,
                        pixelWidth |-> dim[1], pixelHeight |-> dim[2],
                        regionMap |-> ZeroMap]
            /\ rng' = Seed(rng, seed)
    /\ calls' = calls + 1
    /\ pc' = "elevations"
    /\ FreshLocals
    /\ ret' = NoResult
    /\ UNCHANGED <<regionMap, golden>>

\* porygion.go:58-59, GenerateRegionMapWithCities is called on the caller's
\* map; its filter reads regionMap.Elevations
CallWithCities(seeds, counts) ==
    /\ pc = "idle"
    /\ \E seed \in seeds :
         \E n \in counts :
            /\ call' = [op |-> "cities", seed |-> seed, numCities |-> n,
                        pixelWidth |-> 0, pixelHeight |-> 0, regionMap |-> regionMap]
            /\ rng' = Seed(rng, seed)
    /\ calls' = calls + 1
    /\ pc' = "filter"
    /\ elevations' = regionMap.Elevations
    /\ validTiles' = <<>>
    /\ partitions' = <<>>
    /\ partitionKeys' = <<>>
    /\ cities' = {}
    /\ c' = 0
    /\ i' = 0
    /\ j' = 0
    /\ cityList' = <<>>
    /\ cityClusters' = <<>>
    /\ k' = 1
    /\ connectedCities' = {}
    /\ city' = <<>>
    /\ firstCity' = <<>>
    /\ lastCity' = Tile(0, 0)
    /\ routeTiles' = {}
    /\ conns' = <<>>
    /\ noCandidate' = FALSE
    /\ ret' = NoResult
    /\ UNCHANGED <<regionMap, golden>>

\* porygion.go:69-71, GenerateRegionMapWithRoutes is called on the caller's
\* map; clusterCities reads regionMap.Cities
CallWithRoutes(seeds) ==
    /\ pc = "idle"
    /\ \E seed \in seeds :
         /\ call' = [op |-> "routes", seed |-> seed, numCities |-> 0,
                     pixelWidth |-> 0, pixelHeight |-> 0, regionMap |-> regionMap]
         /\ rng' = Seed(rng, seed)
    /\ calls' = calls + 1
    /\ pc' = "cluster"
    /\ elevations' = NoField
    /\ validTiles' = <<>>
    /\ partitions' = <<>>
    /\ partitionKeys' = <<>>
    /\ cities' = {}
    /\ c' = 0
    /\ i' = 0
    /\ j' = 0
    /\ cityList' = regionMap.Cities
    /\ cityClusters' = <<>>
    /\ k' = 1
    /\ connectedCities' = {}
    /\ city' = <<>>
    /\ firstCity' = <<>>
    /\ lastCity' = Tile(0, 0)
    /\ routeTiles' = {}
    /\ conns' = <<>>
    /\ noCandidate' = FALSE
    /\ ret' = NoResult
    /\ UNCHANGED <<regionMap, golden>>

\* rand.Int63(): of a noise seed the model keeps one bit.
Int63(r) == Intn(r, 2)

\* porygion.go:25-26/47-48, getNewElevationMap and generateElevations: the
\* seeds of the four noises are drawn, and they decide the field.
GenerateElevations ==
    /\ pc = "elevations"
    /\ \E d1 \in Int63(rng) :
         \E d2 \in Int63(d1.rng) :
            \E d3 \in Int63(d2.rng) :
               \E d4 \in Int63(d3.rng) :
                  /\ elevations' =
                        LandField(call.pixelWidth, call.pixelHeight,
                                  LandPatterns[((d1.v + 3 * d2.v + d3.v + 3 * d4.v)
                                                  % Len(LandPatterns)) + 1])
                  /\ rng' = d4.rng
    /\ pc' = IF call.op = "base" THEN "return" ELSE "filter"
    /\ UNCHANGED <<callVars, validTiles, partitions, placerVars, routeVars>>

\* porygion.go:30-33/71-74: the cities are clustered, and a failure to
\* cluster ends the call with RegionMap{} and the error.
ClusterCities ==
    /\ pc = "cluster"
    /\ LET r == clusterCities(cityList, rng.seeded)
       IN  IF r.err
           THEN /\ ret' = [kind |-> "error", map |-> ZeroMap]
                /\ pc' = "idle"
                /\ UNCHANGED cityClusters
           ELSE /\ cityClusters' \in r.clusters
                /\ pc' = "routes"
                /\ UNCHANGED ret
    /\ UNCHANGED <<call, regionMap, golden, calls, rng, fieldVars, placerVars, k,
                   connectedCities, city, firstCity, lastCity, routeTiles, conns,
                   noCandidate>>

ReturnedMapFresh ==
    [PixelWidth |-> IF call.op \in {"full", "base"} THEN call.pixelWidth
                    ELSE call.regionMap.PixelWidth,
     PixelHeight |-> IF call.op \in {"full", "base"} THEN call.pixelHeight
                     ELSE call.regionMap.PixelHeight,
     Elevations |-> IF call.op \in {"full", "base"} THEN elevations
                    ELSE call.regionMap.Elevations,
     Cities |-> IF call.op = "routes" THEN call.regionMap.Cities ELSE cityList,
     Routes |-> routeTiles]
\* porygion.go:35-41, 49-53, 63-64 and 76-77: the map the call returns
ReturnedMap ==
    CASE call.op = "full" ->
            [PixelWidth |-> call.pixelWidth, PixelHeight |-> call.pixelHeight,
             Elevations |-> elevations, Cities |-> cityList, Routes |-> routeTiles]
      [] call.op = "base" ->
            [PixelWidth |-> call.pixelWidth, PixelHeight |-> call.pixelHeight,
             Elevations |-> elevations, Cities |-> <<>>, Routes |-> {}]
      [] call.op = "cities" -> [call.regionMap EXCEPT !.Cities = cityList]
      [] call.op = "routes" -> [call.regionMap EXCEPT !.Routes = routeTiles]

Return ==
    /\ pc = "return"
    /\ ret' = [kind |-> "map", map |-> ReturnedMap]
    /\ regionMap' = ReturnedMap
    /\ pc' = "idle"
    /\ UNCHANGED <<call, golden, calls, rng, fieldVars, placerVars, routeVars>>

----------------------------------------------------------------------------
(* The settlement placer on its own: any list of eligible tiles, in the    *)
(* filter's order, any requested count and any draws.                      *)

MaxTiles == 2
MaxCities == 2

\* Two tiles a city may stand on, and one tile failing each check of
\* tryPickCityTile; (101,3) falls in a second partition.
ProbeTiles ==
    {Tile(1, 3), Tile(19, 3), Tile(2, 3), Tile(1, 4), Tile(1, 1), Tile(29, 3),
     Tile(1, 17), Tile(15, 15), Tile(21, 3), Tile(101, 3)}

InitCities ==
    /\ pc = "partition"
    /\ \E n \in 0..MaxCities : call = [NoCall EXCEPT !.op = "cities", !.numCities = n]
    /\ regionMap = ZeroMap
    /\ ret = NoResult
    /\ golden = NoResult
    /\ calls = 0
    /\ rng = FreeRng
    /\ elevations = NoField
    /\ \E S \in SUBSET ProbeTiles : Cardinality(S) <= MaxTiles /\ validTiles = ScanOrder(S)
    /\ partitions = <<>>
    /\ PlacerIdle
    /\ RoutesIdle

NextCities == PartitionTiles \/ ShuffleKeys \/ PlaceNoPartition \/ PickCityTile \/ CitiesDone

SpecCities == InitCities /\ [][NextCities]_vars

\* C1: every settlement the placer has chosen, and every settlement of the
\* slice it returns, has odd x and odd y, 1 <= x <= 28, 2 <= y <= 16, lies in
\* neither exclusion box, and the returned slice holds no tile twice.
C1_SettlementsValid ==
    /\ \A t \in cities \cup Elems(cityList) :
          /\ t.X % 2 = 1 /\ t.Y % 2 = 1
          /\ 1 <= t.X /\ t.X <= 28
          /\ 2 <= t.Y /\ t.Y <= 16
          /\ ~(t.X > 14 /\ t.Y > 14)
          /\ ~(t.X > 19 /\ t.Y < 5)
    /\ NoDuplicates(cityList)

\* The placer returned a settlement drawn from a list that also offered a
\* tile of the top-right box.
C1_Witness ==
    /\ pc = "return"
    /\ Len(cityList) >= 1
    /\ Tile(21, 3) \in Elems(validTiles)

\* C4: the placer never fails, whatever the partition mapping (the empty one
\* included) and the requested count, and returns at most N settlements.
C4_PlacerTotal ==
    /\ pc /= "panic"
    /\ pc = "return" => Len(cityList) <= call.numCities

----------------------------------------------------------------------------
(* The route builder on its own: any two non-empty clusters, a tile        *)
(* possibly listed twice, and any draws.                                   *)

MaxClusterCities == 4

RouteProbeTiles == {Tile(1, 3), Tile(3, 3), Tile(7, 3), Tile(1, 5), Tile(5, 7)}

TileLists(n) == [1..n -> RouteProbeTiles]

InitRoutes ==
    /\ pc = "routes"
    /\ call = [NoCall EXCEPT !.op = "routes"]
    /\ regionMap = ZeroMap
    /\ ret = NoResult
    /\ golden = NoResult
    /\ calls = 0
    /\ rng = FreeRng
    /\ FieldIdle
    /\ PlacerIdle
    /\ \E m \in 1..(MaxClusterCities - 1) :
         \E n \in 1..(MaxClusterCities - m) :
            \E as \in TileLists(m) :
               \E bs \in TileLists(n) : cityClusters = <<as, bs>>
    /\ k = 1
    /\ connectedCities = {}
    /\ city = <<>>
    /\ firstCity = <<>>
    /\ lastCity = Tile(0, 0)
    /\ routeTiles = {}
    /\ conns = <<>>
    /\ noCandidate = FALSE

NextRoutes == SkipCluster \/ ChainConnect \/ ChainNoCandidate \/ CloseLoop \/ JoinClusters

SpecRoutes == InitRoutes /\ [][NextRoutes]_vars

\* No tile is listed twice in the cluster assignment.
AllDistinct ==
    NoDuplicates(cityClusters[1] \o cityClusters[2])

\* No tile is listed twice in a cluster.
AllClustersDistinct == NoDuplicates(cityClusters[1]) /\ NoDuplicates(cityClusters[2])

\* The tiles reachable from the tiles S by steps between 4-adjacent tiles
\* that stay on the route tiles R.
RECURSIVE RouteClosure(_, _)
RouteClosure(S, R) ==
    LET new == {t \in R \ S : \E u \in S : Distance(u, t) = 1}
    IN  IF new = {} THEN S ELSE RouteClosure(S \cup new, R)

\* There is a chain of 4-adjacent tiles from a to b whose tiles, the two
\* ends apart, are all route tiles of R.
Linked(a, b, R) == a = b \/ \E u \in RouteClosure({a}, R) : Distance(u, b) = 1

\* C2: once the route builder has run on two clusters of pairwise distinct
\* settlements, any two settlements of a cluster of two or more are linked
\* by a chain of 4-adjacent tiles that, the two ends apart, are route tiles;
\* whatever the coin of each connection was.
C2_ClusterConnected ==
    (pc = "return" /\ AllDistinct) =>
        \A q \in 1..Len(cityClusters) :
            Len(cityClusters[q]) >= 2 =>
                \A a, b \in Elems(cityClusters[q]) : Linked(a, b, routeTiles)

\* The builder has finished on distinct settlements, three of them in the
\* first cluster and not all in one row or column.
C2_Witness ==
    /\ pc = "return"
    /\ AllDistinct
    /\ Len(cityClusters[1]) >= 3
    /\ \E a, b \in Elems(cityClusters[1]) : a.X /= b.X /\ a.Y /= b.Y

\* The connections of kind `kind` laid for cluster q, in order.
ConnsOf(q, kind) == SelectSeq(conns, LAMBDA e : e.cluster = q /\ e.kind = kind)

\* The number of connections of cluster q (chain and closing) that end at t.
Degree(q, t) ==
    Cardinality({n \in DOMAIN conns :
                    /\ conns[n].cluster = q
                    /\ conns[n].kind \in {"chain", "close"}
                    /\ conns[n].a /= conns[n].b
                    /\ t \in {conns[n].a, conns[n].b}})

\* C9: the closing connection of a cluster of two or more distinct
\* settlements joins the settlement the chain started from to the last one
\* the chain reached, and in a cluster of three or more every settlement
\* then ends at least two connections.
C9_ClosingJoinsCurrentToFirst ==
    \A q \in 1..Len(cityClusters) :
        (NoDuplicates(cityClusters[q]) /\ ConnsOf(q, "close") /= <<>>) =>
            LET chain == ConnsOf(q, "chain")
                close == ConnsOf(q, "close")[1]
            IN  /\ close.a = chain[1].a
                /\ close.b = chain[Len(chain)].b
                /\ Len(cityClusters[q]) >= 3 =>
                       \A t \in Elems(cityClusters[q]) : Degree(q, t) >= 2

\* C10, in every state: for a cluster of n >= 2 distinct settlements, while
\* its loop runs the search finds a nearest unconnected settlement, the
\* connected settlements are one more than the connections laid (none before
\* the first), and once the loop is over exactly n-1 connections were laid.
C10_ChainState ==
    /\ \A q \in 1..Len(cityClusters) :
          (NoDuplicates(cityClusters[q]) /\ Len(cityClusters[q]) >= 2) =>
              /\ (q < k) => Len(ConnsOf(q, "chain")) = Len(cityClusters[q]) - 1
              /\ (q = k /\ pc = "routes") =>
                    /\ Cardinality(connectedCities) =
                          IF ConnsOf(q, "chain") = <<>> THEN 0
                          ELSE Len(ConnsOf(q, "chain")) + 1
                    /\ InChain => ChainNearest /= <<>>
    /\ AllClustersDistinct => ~noCandidate

\* How far the builder has come: the clusters done, then the settlements
\* connected in the current one; it is bounded by the number of settlements.
Progress ==
    IF pc = "return" THEN (Len(cityClusters) + 2) * (Len(cityClusters[1] \o cityClusters[2]) + 1)
    ELSE k * (Len(cityClusters[1] \o cityClusters[2]) + 1) + Cardinality(connectedCities)

\* C10, in every step: an iteration of the loop on a cluster of distinct
\* settlements marks two settlements connected when none was, and one more
\* otherwise; and while every cluster is of distinct settlements every step
\* of the builder brings it further.
C10_ChainStep ==
    /\ (InChain /\ NoDuplicates(Cluster)) =>
          Cardinality(connectedCities') =
              IF connectedCities = {} THEN 2 ELSE Cardinality(connectedCities) + 1
    /\ (pc = "routes" /\ AllClustersDistinct) => Progress' > Progress

\* C10: the chaining loop of a cluster of n >= 2 distinct settlements ends
\* after exactly n-1 connections, every iteration connecting one more
\* settlement (two at first), never without a candidate, and the builder
\* runs to completion.
C10_ChainTerminates == []C10_ChainState /\ [][C10_ChainStep]_vars

\* The loop of a cluster of three distinct settlements is over.
C10_Witness ==
    /\ pc = "routes"
    /\ k = 2
    /\ Len(cityClusters[1]) = 3
    /\ NoDuplicates(cityClusters[1])
    /\ Len(ConnsOf(1, "chain")) = 2

----------------------------------------------------------------------------
(* The landmark tile filter on its own: fields up to two tiles by one and  *)
(* a few pixels more, each tile with none, 20, 21 or all of its pixels     *)
(* land, packed at either end of the scan.                                 *)

MaxPixelWidth == 17
MaxPixelHeight == 9

LandCounts == {0, LandThreshold, LandThreshold + 1, TileSize * TileSize}

InitFilter ==
    /\ pc = "filter"
    /\ call = [NoCall EXCEPT !.op = "cities"]
    /\ regionMap = ZeroMap
    /\ ret = NoResult
    /\ golden = NoResult
    /\ calls = 0
    /\ rng = FreeRng
    /\ \E w \in 0..MaxPixelWidth :
         \E h \in 0..MaxPixelHeight :
            \E cnt \in [TileGrid(w, h) -> LandCounts] :
               \E back \in BOOLEAN :
                  elevations = [w |-> w, h |-> h, back |-> back, cnt |-> cnt]
    /\ validTiles = <<>>
    /\ partitions = <<>>
    /\ PlacerIdle
    /\ RoutesIdle

NextFilter == FilterTilesStep

SpecFilter == InitFilter /\ [][NextFilter]_vars

\* The pixels of tile t with elevation >= 0, all 64 counted.
LandPixels(f, t) ==
    Cardinality({p \in (0..7) \X (0..7) : ElevAt(f, t.X * 8 + p[1], t.Y * 8 + p[2]) >= 0})

\* The filter read no pixel outside the field and returned, each once, the
\* tiles of the floor(w/8) by floor(h/8) grid with more than 20 land pixels.
FilterExact ==
    /\ pc /= "panic"
    /\ NoDuplicates(validTiles)
    /\ Elems(validTiles) =
          {t \in {Tile(x, y) : x \in 0..((elevations.w \div 8) - 1),
                               y \in 0..((elevations.h \div 8) - 1)} :
              LandPixels(elevations, t) > 20}

\* C7 as stated: for every elevation field of width w and height h the
\* filter returns exactly the tiles of the floor(w/8) by floor(h/8) grid
\* whose block holds more than 20 land pixels, each once, reading no pixel
\* outside the field.
C7_FilterExactAnyField == pc /= "filter" => FilterExact

\* The same for the elevation fields of width w >= 1 (and any height, 0
\* included): the fields on which C7 holds.
C7_FilterExactNonEmptyField == (pc /= "filter" /\ elevations.w >= 1) => FilterExact

\* The filter ran on a field 17 pixels wide and 9 high, kept a tile whose 21
\* land pixels come last in the scan and dropped one with 20.
C7_Witness ==
    /\ pc = "partition"
    /\ elevations.w = 17 /\ elevations.h = 9
    /\ elevations.back
    /\ \E t, u \in DOMAIN elevations.cnt :
          /\ elevations.cnt[t] = 21 /\ t \in Elems(validTiles)
          /\ elevations.cnt[u] = 20 /\ u \notin Elems(validTiles)

----------------------------------------------------------------------------
(* A caller's session: up to MaxCalls calls of the entry points, in any    *)
(* order, starting from a map of its own, the re-entry calls on the map it *)
(* then holds.                                                             *)

MaxCalls == 2

SessionSeeds == {1}
SessionDims == {<<0, 0>>, <<7, 7>>, <<35, 52>>}
SessionCounts == {0, 1, 2}

\* The maps a caller may come with: none, and maps of 35 by 52 pixels with
\* three cities, with a city listed twice, with a city outside the map, and
\* with a single city.
CallerMap(cs, routes) ==
    [PixelWidth |-> 35, PixelHeight |-> 52,
     Elevations |-> LandField(35, 52, {Tile(1, 3), Tile(3, 3), Tile(1, 5)}),
     Cities |-> cs, Routes |-> routes]

CallerMaps ==
    {ZeroMap,
     CallerMap(<<Tile(1, 3), Tile(3, 3), Tile(1, 5)>>, {Tile(1, 4), Tile(2, 3)}),
     CallerMap(<<Tile(1, 3), Tile(1, 3), Tile(3, 3)>>, {}),
     CallerMap(<<Tile(1, 3), Tile(5, 3)>>, {}),
     CallerMap(<<Tile(3, 3)>>, {Tile(2, 3)})}

Init ==
    /\ pc = "idle"
    /\ call = NoCall
    /\ regionMap \in CallerMaps
    /\ ret = NoResult
    /\ golden = NoResult
    /\ calls = 0
    /\ rng = FreeRng
    /\ FieldIdle
    /\ PlacerIdle
    /\ RoutesIdle

CallGenerateRegionMap ==
    calls < MaxCalls /\ CallFull(SessionSeeds, SessionDims, SessionCounts)

CallGenerateBaseRegionMap ==
    calls < MaxCalls /\ CallBase(SessionSeeds, SessionDims)

CallGenerateRegionMapWithCities ==
    calls < MaxCalls /\ CallWithCities(SessionSeeds, SessionCounts)

CallGenerateRegionMapWithRoutes ==
    calls < MaxCalls /\ CallWithRoutes(SessionSeeds)

Next ==
    \/ CallGenerateRegionMap
    \/ CallGenerateBaseRegionMap
    \/ CallGenerateRegionMapWithCities
    \/ CallGenerateRegionMapWithRoutes
    \/ GenerateElevations
    \/ FilterTilesStep
    \/ PartitionTiles
    \/ ShuffleKeys
    \/ PlaceNoPartition
    \/ PickCityTile
    \/ CitiesDone
    \/ ClusterCities
    \/ SkipCluster
    \/ ChainConnect
    \/ ChainNoCandidate
    \/ CloseLoop
    \/ JoinClusters
    \/ Return

Spec == Init /\ [][Next]_vars

\* C3, in every state: generate_full and regenerate_routes run the route
\* builder, and return a map, only with two settlements or more.
C3_RoutesNeedTwo ==
    (call.op \in {"full", "routes"} /\ pc \in {"routes", "return"}) => Len(cityList) >= 2

\* C3, in every step: from the clustering stage with fewer than two
\* settlements the call ends at once, returning the clustering error and no
\* map, with no route laid, and not in a crash.
C3_ClusterStep ==
    (pc = "cluster" /\ Len(cityList) < 2) =>
        /\ pc' = "idle"
        /\ ret' = [kind |-> "error", map |-> ZeroMap]
        /\ routeTiles' = {}
        /\ conns' = <<>>

\* C3: when generate_full or regenerate_routes reaches the clustering stage
\* with fewer than two settlements, the call returns the clustering error:
\* it does not crash, does not run the route builder and returns no map.
C3_ClusteringError == []C3_RoutesNeedTwo /\ [][C3_ClusterStep]_vars

\* generate_full has placed a single settlement and returned the error.
C3_Witness ==
    /\ pc = "idle"
    /\ call.op = "full"
    /\ Len(cityList) = 1
    /\ ret.kind = "error"

\* Tile t lies in the tile grid of map m.
InGrid(t, m) ==
    /\ 0 <= t.X /\ t.X < m.PixelWidth \div 8
    /\ 0 <= t.Y /\ t.Y < m.PixelHeight \div 8

\* Tile t lies in the bounding box of tiles a and b.
InBox(t, a, b) ==
    /\ (a.X <= t.X /\ t.X <= b.X) \/ (b.X <= t.X /\ t.X <= a.X)
    /\ (a.Y <= t.Y /\ t.Y <= b.Y) \/ (b.Y <= t.Y /\ t.Y <= a.Y)

\* C6: every settlement and route tile of a map returned by generate_full,
\* and by regenerate_routes on settlements inside the map, lies in the
\* floor(width/8) by floor(height/8) tile grid; and every tile a connection
\* lays lies in the bounding box of the two settlements it connects.
C6_TilesInBounds ==
    /\ (/\ pc = "idle"
        /\ ret.kind = "map"
        /\ \/ call.op = "full"
           \/ /\ call.op = "routes"
              /\ \A t \in Elems(call.regionMap.Cities) : InGrid(t, call.regionMap))
       => \A t \in Elems(ret.map.Cities) \cup ret.map.Routes : InGrid(t, ret.map)
    /\ \A n \in DOMAIN conns : \A t \in conns[n].tiles : InBox(t, conns[n].a, conns[n].b)

\* generate_full has returned a map of 35 by 52 pixels with routes that turn
\* a corner.
C6_Witness ==
    /\ pc = "idle"
    /\ ret.kind = "map"
    /\ call.op = "full"
    /\ ret.map.PixelWidth = 35
    /\ \E t, u \in ret.map.Routes : t.X /= u.X /\ t.Y /= u.Y

\* C8: the map regenerate_cities returns has the pixel dimensions, the
\* elevation field and the routes of its input map, and the map
\* regenerate_routes returns has the pixel dimensions, the elevation field
\* and the cities of its input map; only the other part is replaced.
C8_ReentryFrame ==
    (pc = "idle" /\ ret.kind = "map") =>
        /\ call.op = "cities" =>
              /\ ret.map.PixelWidth = call.regionMap.PixelWidth
              /\ ret.map.PixelHeight = call.regionMap.PixelHeight
              /\ ret.map.Elevations = call.regionMap.Elevations
              /\ ret.map.Routes = call.regionMap.Routes
              /\ ret.map.Cities = cityList
        /\ call.op = "routes" =>
              /\ ret.map.PixelWidth = call.regionMap.PixelWidth
              /\ ret.map.PixelHeight = call.regionMap.PixelHeight
              /\ ret.map.Elevations = call.regionMap.Elevations
              /\ ret.map.Cities = call.regionMap.Cities
              /\ ret.map.Routes = routeTiles

\* regenerate_cities has returned new cities for a map that has routes, in
\* the second call of a session.
C8_Witness ==
    /\ pc = "idle"
    /\ ret.kind = "map"
    /\ call.op = "cities"
    /\ calls = 2
    /\ call.regionMap.Routes /= {}
    /\ ret.map.Cities /= call.regionMap.Cities
    /\ ret.map.Cities /= <<>>

----------------------------------------------------------------------------
(* Two runs of GenerateRegionMap with the same arguments.  The source of   *)
(* random numbers is seeded, so both runs see the same stream of draws;    *)
(* the order in which Go enumerates a map is left to the runtime.          *)

MaxSeed == 3

DetSeeds == 0..MaxSeed
DetDims == {<<808, 32>>}
DetCounts == 0..3

InitDet ==
    /\ pc = "idle"
    /\ call = NoCall
    /\ regionMap = ZeroMap
    /\ ret = NoResult
    /\ golden = NoResult
    /\ calls = 0
    /\ rng = SeededRng
    /\ FieldIdle
    /\ PlacerIdle
    /\ RoutesIdle

\* The first run.
FirstRun == calls = 0 /\ CallFull(DetSeeds, DetDims, DetCounts)

\* porygion.go:23-24: the first run's result is kept and GenerateRegionMap
\* is called again with the arguments of the first run.
Rerun ==
    /\ pc = "idle"
    /\ calls = 1
    /\ golden' = ret
    /\ ret' = NoResult
    /\ call' = call
    /\ rng' = Seed(rng, call.seed)
    /\ calls' = calls + 1
    /\ pc' = "elevations"
    /\ FreshLocals
    /\ UNCHANGED regionMap

NextDet ==
    \/ FirstRun
    \/ Rerun
    \/ GenerateElevations
    \/ FilterTilesStep
    \/ PartitionTiles
    \/ ShuffleKeys
    \/ PlaceNoPartition
    \/ PickCityTile
    \/ CitiesDone
    \/ ClusterCities
    \/ SkipCluster
    \/ ChainConnect
    \/ CloseLoop
    \/ JoinClusters
    \/ Return

SpecDet == InitDet /\ [][NextDet]_vars

\* C5: two runs of generate_full with the same seed, width, height and
\* numCities return the same set of settlement tiles and the same set of
\* route tiles, whatever the order in which the partition map, the
\* settlement set and the clusters are enumerated.
C5_SameResult ==
    (pc = "idle" /\ calls = 2 /\ golden /= NoResult /\ ret /= NoResult) =>
        /\ ret.kind = golden.kind
        /\ Elems(ret.map.Cities) = Elems(golden.map.Cities)
        /\ ret.map.Routes = golden.map.Routes

====
